---- MODULE Spec2Model ----
(***************************************************************************)
(* The LLM gateway of llm_service: the model registry (LLMService.models), *)
(* the HTTP dispatcher (main.py, one asyncio event loop) and the gRPC      *)
(* dispatcher (server.py, a thread pool of 4 workers).                     *)
(*                                                                         *)
(* A request is a thread of control with a program counter `pc` that names *)
(* the source line it is about to execute.  Every step makes at most one   *)
(* access to shared state (a registry dict or the model directories).      *)
(***************************************************************************)
EXTENDS Integers, Sequences, FiniteSets, TLC

VARIABLES
    disk,       \* state of /app/models/<name> for every model name
    models,     \* models[R]: the dict LLMService.models of registry R
    req,        \* req[r]: the handler invocation serving request r
    adapter,    \* adapter[R][n]: what the runtime libraries were asked to do
    first       \* first[R][n]: handle obtained by the first load-or-get that returned

vars == <<disk, models, req, adapter, first>>

-----------------------------------------------------------------------------
(* Bounds of the model *)

NumHttp == 1          \* HTTP requests of Spec
NumGrpc == 2          \* gRPC calls of Spec and SpecGrpc
NumPosts == 2         \* HTTP requests of SpecHttp
NumRace == 3          \* gRPC calls of SpecRace
NumPool == 5          \* gRPC calls of SpecPool
NumLive == 2          \* gRPC calls of SpecLive
MaxTextLen == 4       \* longest generated text of SpecText, in characters

(* Program constants *)

MaxWorkers == 4               \* server.py:46  ThreadPoolExecutor(max_workers=4)
DefaultMaxLength == 128       \* main.py:17, server.py:17
DefaultTemperature == 7       \* main.py:18, server.py:18: 0.7, in tenths
InfoMaxLength == 2048         \* llm_service.py:69
HttpError == 500              \* main.py:46, main.py:54
HttpOk == 200                 \* FastAPI's status of a handler that returns

DefaultModelName == "deepseek-7b"    \* main.py:16
InfoArchitecture == "Transformer"    \* llm_service.py:70

Names == {"deepseek-7b", "qwen3"}
Registries == {"main", "servicer"}

\* main.py:12: the HTTP handlers use the module-level LLMService()
HttpRegistry == "main"
\* server.py:10: the servicer constructs its own LLMService()
GrpcRegistry == "servicer"

RegistryOf(proto) == IF proto = "http" THEN HttpRegistry ELSE GrpcRegistry

-----------------------------------------------------------------------------
(* Values *)

\* An optional field of a request: <<>> when the request does not carry it,
\* <<v>> when it carries v.
Absent == <<>>
Some(v) == <<v>>
Opt(S) == {Absent} \cup {Some(v) : v \in S}

NoHandle == [model |-> 0, tokenizer |-> 0]
NoMsg == <<>>
NoBody == [kind |-> "none", generated_text |-> <<>>, tokens_generated |-> 0,
           model_name |-> "", max_length |-> 0, architecture |-> ""]
NoResp == [status_code |-> 0, code |-> "", detail |-> NoMsg, body |-> NoBody]

\* The object a load performed by request r creates (a request loads at most once,
\* so the request's id identifies the object).
NewObject(r) == r

\* Characters of a generated text: a letter and two kinds of whitespace.
Chars == {"a", " ", "\n"}
IsSpace(c) == c \in {" ", "\n", "\t", "\r"}

RECURSIVE SeqsUpTo(_, _)
SeqsUpTo(S, n) ==
    IF n = 0 THEN {<<>>}
    ELSE LET shorter == SeqsUpTo(S, n - 1)
         IN  shorter \cup {Append(s, c) : s \in {t \in shorter : Len(t) = n - 1}, c \in S}

-----------------------------------------------------------------------------
(* Pure functions of the handlers *)

\* str.split() with no separator: runs of whitespace separate words; leading and
\* trailing whitespace produce no empty word.
RECURSIVE SplitFrom(_, _, _, _)
SplitFrom(text, i, word, words) ==
    IF i > Len(text)
    THEN IF word = <<>> THEN words ELSE Append(words, word)
    ELSE IF IsSpace(text[i])
         THEN SplitFrom(text, i + 1, <<>>,
                        IF word = <<>> THEN words ELSE Append(words, word))
         ELSE SplitFrom(text, i + 1, Append(word, text[i]), words)

\* Faulty variant of Split: str.split(" "), where every single space separates and empty
\* words are kept.
RECURSIVE SplitOnSpaceFrom(_, _, _, _)
SplitOnSpaceFrom(text, i, word, words) ==
    IF i > Len(text)
    THEN Append(words, word)
    ELSE IF text[i] = " "
         THEN SplitOnSpaceFrom(text, i + 1, <<>>, Append(words, word))
         ELSE SplitOnSpaceFrom(text, i + 1, Append(word, text[i]), words)

SplitOnSpace(text) == SplitOnSpaceFrom(text, 1, <<>>, <<>>)

Split(text) == SplitFrom(text, 1, <<>>, <<>>)

\* Faulty variant of OrDefault: the default is never substituted.
OrDefaultIdentity(x, d) == x

\* Python's `x or d`: d when x is falsy (0, 0.0), x otherwise.
OrDefault(x, d) == IF x = 0 THEN d ELSE x

\* Faulty variant of FieldDefault: a zero in the body is replaced by the default
\* too, as `x or d` does.
FieldDefaultOrZero(x, d) == IF x = Absent \/ x = Some(0) THEN d ELSE x[1]

\* pydantic: a field absent from the body takes the declared default.
FieldDefault(x, d) == IF x = Absent THEN d ELSE x[1]

\* str(e) of the exceptions the service raises
FileNotFound(n) == <<"Model", n, "not found at", "/app/models/", n>>
TokenizerError(n) == <<"tokenizer", n>>
WeightsError(n) == <<"weights", n>>
InferenceError(n) == <<"generate", n>>

-----------------------------------------------------------------------------
(* Responses of the two dispatchers *)

TextBody(text) ==
    [NoBody EXCEPT !.kind = "text", !.generated_text = text,
                   !.tokens_generated = Len(Split(text))]

\* llm_service.py:67-71: the dict get_model_info returns
ModelInfo(n) ==
    [NoBody EXCEPT !.kind = "info", !.model_name = n,
                   !.max_length = InfoMaxLength, !.architecture = InfoArchitecture]

\* main.py:41-44
HttpTextResponse(text) == [NoResp EXCEPT !.status_code = HttpOk, !.body = TextBody(text)]
\* main.py:52
HttpInfoResponse(info) == [NoResp EXCEPT !.status_code = HttpOk, !.body = info]
\* Faulty variant of HttpException: a missing model answers 404.
HttpException404(msg) ==
    [NoResp EXCEPT !.status_code = IF msg # NoMsg /\ msg[1] = "Model" THEN 404 ELSE HttpError,
                   !.detail = msg]

\* main.py:45-46 and main.py:53-54
HttpException(msg) == [NoResp EXCEPT !.status_code = HttpError, !.detail = msg]

\* server.py:20-23
GrpcTextResponse(text) == [NoResp EXCEPT !.code = "OK", !.body = TextBody(text)]
\* server.py:32-36
GrpcInfoResponse(info) ==
    [NoResp EXCEPT !.code = "OK",
                   !.body = [NoBody EXCEPT !.kind = "info",
                                           !.model_name = info.model_name,
                                           !.max_length = info.max_length,
                                           !.architecture = info.architecture]]
\* Faulty variant of GrpcTextError: the exception leaves the handler, gRPC reports UNKNOWN
\* and there is no response message.
GrpcAbort(msg) == [NoResp EXCEPT !.code = "UNKNOWN", !.detail = msg]

\* server.py:24-27: set_code(INTERNAL), set_details(str(e)), return TextResponse()
GrpcTextError(msg) ==
    [NoResp EXCEPT !.code = "INTERNAL", !.detail = msg,
                   !.body = [NoBody EXCEPT !.kind = "text"]]
\* server.py:37-40: set_code(INTERNAL), set_details(str(e)), return ModelInfoResponse()
GrpcInfoError(msg) ==
    [NoResp EXCEPT !.code = "INTERNAL", !.detail = msg,
                   !.body = [NoBody EXCEPT !.kind = "info"]]

\* The handler of request q returns `text` from llm_service.generate_text
ReturnsText(q, text) ==
    [q EXCEPT !.pc = "done",
              !.resp = IF q.proto = "http" THEN HttpTextResponse(text)
                                            ELSE GrpcTextResponse(text)]

\* The handler of request q returns the info dict of llm_service.get_model_info
ReturnsInfo(q) ==
    [q EXCEPT !.pc = "done",
              !.resp = IF q.proto = "http" THEN HttpInfoResponse(ModelInfo(q.model_name))
                                            ELSE GrpcInfoResponse(ModelInfo(q.model_name))]

\* An exception with message msg reaches the handler's `except Exception as e`
Raises(q, msg) ==
    [q EXCEPT !.pc = "done",
              !.raised = TRUE,
              !.resp = IF q.proto = "http" THEN HttpException(msg)
                       ELSE IF q.kind = "generate" THEN GrpcTextError(msg)
                                                   ELSE GrpcInfoError(msg)]

-----------------------------------------------------------------------------
(* State *)

NewRequest(proto) ==
    [proto |-> proto, kind |-> "", pc |-> "new",
     prompt |-> "", model_name |-> "",
     in_max_length |-> Absent, in_temperature |-> Absent,  \* as the request carries them
     max_length |-> 0, temperature |-> 0,         \* as passed to generate_text
     tokenizer |-> 0, model |-> 0,                \* locals of load_model
     handle |-> NoHandle,                         \* model_info of generate_text
     gen_max_length |-> 0, gen_temperature |-> 0, \* as passed to model.generate
     loads |-> 0,                                 \* adapter loads this request started
     seen |-> "",                                 \* the directory as its load found it
     inserted |-> FALSE,                          \* this request wrote the registry
     late |-> FALSE,                              \* accepted after a load-or-get returned
     raised |-> FALSE,
     resp |-> NoResp]

DiskStates == {"absent", "bad_tokenizer", "bad_weights", "good"}

NoCalls == [calls |-> 0, tokenizers |-> 0, weights |-> 0]

InitWith(nHttp, nGrpc, disks) ==
    /\ disk \in disks
    /\ models = [R \in Registries |-> << >>]
    /\ req = [r \in 1..(nHttp + nGrpc) |->
                 NewRequest(IF r <= nHttp THEN "http" ELSE "grpc")]
    /\ adapter = [R \in Registries |-> [n \in Names |-> NoCalls]]
    /\ first = [R \in Registries |-> [n \in Names |-> NoHandle]]

AnyDisk == [Names -> DiskStates]
GoodDisk == {[n \in Names |-> "good"]}

Init == InitWith(NumHttp, NumGrpc, AnyDisk)

Reg(r) == RegistryOf(req[r].proto)
Loaded(R) == DOMAIN models[R]
Running(r) == req[r].pc \notin {"new", "done"}

\* Requests of one protocol are interchangeable: they are issued in id order.
InOrder(r) ==
    \A s \in DOMAIN req : (req[s].proto = req[r].proto /\ s < r) => req[s].pc # "new"

\* Faulty variant of EventLoopFree: the handlers are plain `def` functions, which
\* the framework runs on threads of its own pool.
EventLoopFreeThreaded == TRUE

\* main.py:33,49: the handlers are `async def` and never await, so the event loop
\* runs one of them from its first line to its response before it starts another.
EventLoopFree == \A s \in DOMAIN req : req[s].proto = "http" => ~Running(s)

\* The gRPC handler invocations that occupy a worker
Executing == {s \in DOMAIN req : req[s].proto = "grpc" /\ Running(s)}

\* Faulty variant of WorkerFree: the pool hands out one worker more than it has.
WorkerFreeOffByOne == Cardinality(Executing) <= MaxWorkers

\* server.py:46: a call runs when one of the pool's workers is free.
WorkerFree ==
    Cardinality({s \in DOMAIN req : req[s].proto = "grpc" /\ Running(s)}) < MaxWorkers

\* The first load-or-get of n on R that returns fixes first[R][n].
NoteReturn(R, n, h) ==
    first' = IF first[R][n] = NoHandle THEN [first EXCEPT ![R][n] = h] ELSE first

\* The dict entry load_model stores
Entry(q) == [model |-> q.model, tokenizer |-> q.tokenizer]

\* `d[k] = v` on a dict
DictSet(d, k, v) == [x \in DOMAIN d \cup {k} |-> IF x = k THEN v ELSE d[x]]

\* Faulty variant of Enter: get_model_info returns the info without loading the model.
EnterInfoUnchecked(r, q) ==
    LET R == RegistryOf(q.proto)
        n == q.model_name
        q1 == [q EXCEPT !.late = first[R][n] # NoHandle]
    IN
    IF q1.kind = "info"
    THEN /\ req' = [req EXCEPT ![r] = ReturnsInfo(q1)]
         /\ UNCHANGED first
    ELSE IF n \in DOMAIN models[R]
    THEN /\ req' = [req EXCEPT ![r] = [q1 EXCEPT !.pc = "lookup"]]
         /\ NoteReturn(R, n, models[R][n])
    ELSE /\ req' = [req EXCEPT ![r] = [q1 EXCEPT !.pc = "load"]]
         /\ UNCHANGED first

-----------------------------------------------------------------------------
(* LLMService.generate_text and get_model_info, up to their first read of the dict *)

\* llm_service.py:43-44 and 64-65: `if model_name not in self.models`.
\* q is the handler invocation with its arguments bound.  When the name is in the
\* dict generate_text goes on to line 46 and get_model_info returns the info;
\* otherwise load_model is called.
Enter(r, q) ==
    LET R == RegistryOf(q.proto)
        n == q.model_name
        q1 == [q EXCEPT !.late = first[R][n] # NoHandle]
    IN
    IF n \in DOMAIN models[R]
    THEN /\ req' = [req EXCEPT ![r] = IF q1.kind = "generate"
                                       THEN [q1 EXCEPT !.pc = "lookup"]
                                       ELSE ReturnsInfo(q1)]
         /\ NoteReturn(R, n, models[R][n])
    ELSE /\ req' = [req EXCEPT ![r] = [q1 EXCEPT !.pc = "load"]]
         /\ UNCHANGED first

-----------------------------------------------------------------------------
(* The handlers' entry: the dispatcher calls into the service *)

\* main.py:33-40: POST /generate.  Fields the body omits take TextRequest's
\* defaults; the values are forwarded as they are.
HttpGenerate(r, prompt, name, ml, t) ==
    /\ req[r].proto = "http" /\ req[r].pc = "new" /\ InOrder(r)
    /\ EventLoopFree
    /\ Enter(r, [req[r] EXCEPT
                   !.kind = "generate", !.prompt = prompt,
                   !.model_name = IF name = "" THEN DefaultModelName ELSE name,
                   !.in_max_length = ml, !.in_temperature = t,
                   !.max_length = FieldDefault(ml, DefaultMaxLength),
                   !.temperature = FieldDefault(t, DefaultTemperature)])
    /\ UNCHANGED <<disk, models, adapter>>

\* main.py:49-51: GET /model-info/{model_name}
HttpModelInfo(r, name) ==
    /\ req[r].proto = "http" /\ req[r].pc = "new" /\ InOrder(r)
    /\ EventLoopFree
    /\ Enter(r, [req[r] EXCEPT !.kind = "info", !.model_name = name])
    /\ UNCHANGED <<disk, models, adapter>>

\* server.py:12-19: GenerateText.  Zero-valued max_length and temperature are
\* replaced by 128 and 0.7.
GrpcGenerateText(r, prompt, name, ml, t) ==
    /\ req[r].proto = "grpc" /\ req[r].pc = "new" /\ InOrder(r)
    /\ WorkerFree
    /\ Enter(r, [req[r] EXCEPT
                   !.kind = "generate", !.prompt = prompt, !.model_name = name,
                   !.in_max_length = Some(ml), !.in_temperature = Some(t),
                   !.max_length = OrDefault(ml, DefaultMaxLength),
                   !.temperature = OrDefault(t, DefaultTemperature)])
    /\ UNCHANGED <<disk, models, adapter>>

\* server.py:29-31: GetModelInfo
GrpcGetModelInfo(r, name) ==
    /\ req[r].proto = "grpc" /\ req[r].pc = "new" /\ InOrder(r)
    /\ WorkerFree
    /\ Enter(r, [req[r] EXCEPT !.kind = "info", !.model_name = name])
    /\ UNCHANGED <<disk, models, adapter>>

-----------------------------------------------------------------------------
(* LLMService.load_model and the rest of generate_text *)

\* Faulty variant of LoadCheck: a handler that finds another handler's load of the
\* name started waits for that load's entry instead of loading itself.
LoadCheckWaits(r) ==
    LET q == req[r]  n == q.model_name  R == Reg(r) IN
    /\ q.pc = "load"
    /\ \/ n \in Loaded(R)
       \/ ~\E s \in DOMAIN req \ {r} :
              Reg(s) = R /\ req[s].model_name = n /\ req[s].loads > 0
    /\ IF n \in Loaded(R)
       THEN /\ req' = [req EXCEPT ![r] = IF q.kind = "generate"
                                          THEN [q EXCEPT !.pc = "lookup"]
                                          ELSE ReturnsInfo(q)]
            /\ NoteReturn(R, n, models[R][n])
       ELSE /\ req' = [req EXCEPT ![r].pc = "path"]
            /\ UNCHANGED first
    /\ UNCHANGED <<disk, models, adapter>>

\* llm_service.py:15-16: `if model_name in self.models: return`
LoadCheck(r) ==
    LET q == req[r]  n == q.model_name  R == Reg(r) IN
    /\ q.pc = "load"
    /\ IF n \in Loaded(R)
       THEN /\ req' = [req EXCEPT ![r] = IF q.kind = "generate"
                                          THEN [q EXCEPT !.pc = "lookup"]
                                          ELSE ReturnsInfo(q)]
            /\ NoteReturn(R, n, models[R][n])
       ELSE /\ req' = [req EXCEPT ![r].pc = "path"]
            /\ UNCHANGED first
    /\ UNCHANGED <<disk, models, adapter>>

\* Faulty variant of PathCheck: the directory is not checked.
PathCheckNoExists(r) ==
    LET q == req[r]  n == q.model_name IN
    /\ q.pc = "path"
    /\ adapter' = [adapter EXCEPT ![Reg(r)][n].calls = @ + 1]
    /\ req' = [req EXCEPT ![r] = [q EXCEPT !.loads = @ + 1, !.pc = "loading"]]
    /\ UNCHANGED <<disk, models, first>>

\* Faulty variant of PathCheck: load_model is entered under one service-wide lock,
\* so a load starts only when no other load is in progress.
PathCheckLocked(r) ==
    LET q == req[r]  n == q.model_name IN
    /\ q.pc = "path"
    /\ \A s \in DOMAIN req \ {r} : req[s].pc \notin {"loading", "insert"}
    /\ adapter' = [adapter EXCEPT ![Reg(r)][n].calls = @ + 1]
    /\ req' = [req EXCEPT ![r] =
                 IF disk[n] = "absent"
                 THEN Raises([q EXCEPT !.loads = @ + 1, !.seen = disk[n]], FileNotFound(n))
                 ELSE [q EXCEPT !.loads = @ + 1, !.pc = "loading"]]
    /\ UNCHANGED <<disk, models, first>>

\* llm_service.py:18-20: resolve the directory, raise FileNotFoundError if missing
PathCheck(r) ==
    LET q == req[r]  n == q.model_name IN
    /\ q.pc = "path"
    /\ adapter' = [adapter EXCEPT ![Reg(r)][n].calls = @ + 1]
    /\ req' = [req EXCEPT ![r] =
                 IF disk[n] = "absent"
                 THEN Raises([q EXCEPT !.loads = @ + 1, !.seen = disk[n]], FileNotFound(n))
                 ELSE [q EXCEPT !.loads = @ + 1, !.pc = "loading"]]
    /\ UNCHANGED <<disk, models, first>>

\* Faulty variant of LoadModel: the entry is stored as soon as the tokenizer is loaded, so
\* a failure of the weights leaves a partial entry behind.
LoadModelCaching(r) ==
    LET q == req[r]  n == q.model_name  R == Reg(r) IN
    /\ q.pc = "loading"
    /\ IF disk[n] \in {"absent", "bad_tokenizer"}
       THEN /\ req' = [req EXCEPT ![r] = Raises([q EXCEPT !.seen = disk[n]],
                                                 TokenizerError(n))]
            /\ UNCHANGED <<adapter, models>>
       ELSE IF disk[n] = "bad_weights"
       THEN /\ req' = [req EXCEPT ![r] =
                         Raises([q EXCEPT !.tokenizer = NewObject(r), !.seen = disk[n]],
                                WeightsError(n))]
            /\ adapter' = [adapter EXCEPT ![R][n].tokenizers = @ + 1]
            /\ models' = [models EXCEPT ![R] =
                            DictSet(@, n, [model |-> 0, tokenizer |-> NewObject(r)])]
       ELSE /\ req' = [req EXCEPT ![r] = [q EXCEPT !.tokenizer = NewObject(r),
                                                   !.model = NewObject(r),
                                                   !.seen = disk[n],
                                                   !.pc = "insert"]]
            /\ adapter' = [adapter EXCEPT ![R][n].tokenizers = @ + 1,
                                          ![R][n].weights = @ + 1]
            /\ UNCHANGED models
    /\ UNCHANGED <<disk, first>>

\* llm_service.py:23-34: AutoTokenizer.from_pretrained, then mx.load_model or
\* AutoModelForCausalLM.from_pretrained; either raises on files it cannot read.
LoadModel(r) ==
    LET q == req[r]  n == q.model_name  R == Reg(r) IN
    /\ q.pc = "loading"
    /\ IF disk[n] \in {"absent", "bad_tokenizer"}
       THEN /\ req' = [req EXCEPT ![r] = Raises([q EXCEPT !.seen = disk[n]],
                                                 TokenizerError(n))]
            /\ UNCHANGED adapter
       ELSE IF disk[n] = "bad_weights"
       THEN /\ req' = [req EXCEPT ![r] =
                         Raises([q EXCEPT !.tokenizer = NewObject(r), !.seen = disk[n]],
                                WeightsError(n))]
            /\ adapter' = [adapter EXCEPT ![R][n].tokenizers = @ + 1]
       ELSE /\ req' = [req EXCEPT ![r] = [q EXCEPT !.tokenizer = NewObject(r),
                                                   !.model = NewObject(r),
                                                   !.seen = disk[n],
                                                   !.pc = "insert"]]
            /\ adapter' = [adapter EXCEPT ![R][n].tokenizers = @ + 1,
                                          ![R][n].weights = @ + 1]
    /\ UNCHANGED <<disk, models, first>>

\* llm_service.py:36-39: self.models[model_name] = {...}; load_model returns
Insert(r) ==
    LET q == req[r]  n == q.model_name  R == Reg(r) IN
    /\ q.pc = "insert"
    /\ models' = [models EXCEPT ![R] = DictSet(@, n, Entry(q))]
    /\ req' = [req EXCEPT ![r] = IF q.kind = "generate"
                                  THEN [q EXCEPT !.inserted = TRUE, !.pc = "lookup"]
                                  ELSE ReturnsInfo([q EXCEPT !.inserted = TRUE])]
    /\ NoteReturn(R, n, Entry(q))
    /\ UNCHANGED <<disk, adapter>>

\* `d.pop(k)` on a dict
DictPop(d, k) == [x \in DOMAIN d \ {k} |-> d[x]]

\* Faulty variant of Lookup: the entry is taken out of the dict when it is read.
LookupPop(r) ==
    LET q == req[r]  R == Reg(r) IN
    /\ q.pc = "lookup"
    /\ q.model_name \in Loaded(R)
    /\ req' = [req EXCEPT ![r] = [q EXCEPT !.handle = models[R][q.model_name],
                                           !.pc = "generate"]]
    /\ models' = [models EXCEPT ![R] = DictPop(@, q.model_name)]
    /\ UNCHANGED <<disk, adapter, first>>

\* llm_service.py:46-48: model_info = self.models[model_name]
Lookup(r) ==
    LET q == req[r] IN
    /\ q.pc = "lookup"
    /\ req' = [req EXCEPT ![r] = [q EXCEPT !.handle = models[Reg(r)][q.model_name],
                                           !.pc = "generate"]]
    /\ UNCHANGED <<disk, models, adapter, first>>

\* Faulty variant of Generate: a failed generation drops the model from the dict.
GenerateEvicting(r, texts) ==
    LET q == req[r]
        called == [q EXCEPT !.gen_max_length = q.max_length,
                            !.gen_temperature = q.temperature]
    IN
    /\ q.pc = "generate"
    /\ \/ /\ \E text \in texts : req' = [req EXCEPT ![r] = ReturnsText(called, text)]
          /\ UNCHANGED models
       \/ /\ req' = [req EXCEPT ![r] = Raises(called, InferenceError(q.model_name))]
          /\ models' = [models EXCEPT ![Reg(r)] = DictPop(@, q.model_name)]
    /\ UNCHANGED <<disk, adapter, first>>

\* llm_service.py:50-60: tokenize, model.generate, decode; the runtime returns
\* some text or raises.
Generate(r, texts) ==
    LET q == req[r]
        called == [q EXCEPT !.gen_max_length = q.max_length,
                            !.gen_temperature = q.temperature]
    IN
    /\ q.pc = "generate"
    /\ \/ \E text \in texts : req' = [req EXCEPT ![r] = ReturnsText(called, text)]
       \/ req' = [req EXCEPT ![r] = Raises(called, InferenceError(q.model_name))]
    /\ UNCHANGED <<disk, models, adapter, first>>

\* The environment: an operator puts a complete model directory in place.
Install(n) ==
    /\ disk[n] # "good"
    /\ disk' = [disk EXCEPT ![n] = "good"]
    /\ UNCHANGED <<models, req, adapter, first>>

-----------------------------------------------------------------------------
(* Specifications *)

Prompts == {"Hello"}
OneText == {<<"a", " ", "a">>}
MaxLengths == {0, 1, 128}
Temperatures == {0, 7, 10}

\* Spec: requests of both dispatchers interleave; max_length and temperature are
\* left out (HTTP) or zero (gRPC).
Next ==
    \/ \E r \in DOMAIN req, p \in Prompts, n \in Names :
          HttpGenerate(r, p, n, Absent, Absent)
    \/ \E r \in DOMAIN req, n \in Names : HttpModelInfo(r, n)
    \/ \E r \in DOMAIN req, p \in Prompts, n \in Names :
          GrpcGenerateText(r, p, n, 0, 0)
    \/ \E r \in DOMAIN req, n \in Names : GrpcGetModelInfo(r, n)
    \/ \E r \in DOMAIN req : LoadCheck(r)
    \/ \E r \in DOMAIN req : PathCheck(r)
    \/ \E r \in DOMAIN req : LoadModel(r)
    \/ \E r \in DOMAIN req : Insert(r)
    \/ \E r \in DOMAIN req : Lookup(r)
    \/ \E r \in DOMAIN req : Generate(r, OneText)
    \/ \E n \in Names : Install(n)

Spec == Init /\ [][Next]_vars

\* SpecGrpc, SpecRace: gRPC calls only, on the pool's threads.
NextGrpc ==
    \/ \E r \in DOMAIN req, p \in Prompts, n \in Names :
          GrpcGenerateText(r, p, n, 0, 0)
    \/ \E r \in DOMAIN req, n \in Names : GrpcGetModelInfo(r, n)
    \/ \E r \in DOMAIN req : LoadCheck(r)
    \/ \E r \in DOMAIN req : PathCheck(r)
    \/ \E r \in DOMAIN req : LoadModel(r)
    \/ \E r \in DOMAIN req : Insert(r)
    \/ \E r \in DOMAIN req : Lookup(r)
    \/ \E r \in DOMAIN req : Generate(r, OneText)
    \/ \E n \in Names : Install(n)

SpecGrpc == InitWith(0, NumGrpc, AnyDisk) /\ [][NextGrpc]_vars
SpecRace == InitWith(0, NumRace, AnyDisk) /\ [][NextGrpc]_vars

\* SpecPool: more gRPC calls for the default model than the pool has workers, a
\* GenerateText followed by GetModelInfo calls; the model directories are in place.
NextPool ==
    \/ \E p \in Prompts : GrpcGenerateText(1, p, DefaultModelName, 0, 0)
    \/ \E r \in DOMAIN req \ {1} : GrpcGetModelInfo(r, DefaultModelName)
    \/ \E r \in DOMAIN req : LoadCheck(r)
    \/ \E r \in DOMAIN req : PathCheck(r)
    \/ \E r \in DOMAIN req : LoadModel(r)
    \/ \E r \in DOMAIN req : Insert(r)
    \/ \E r \in DOMAIN req : Lookup(r)
    \/ \E r \in DOMAIN req : Generate(r, OneText)

SpecPool == InitWith(0, NumPool, GoodDisk) /\ [][NextPool]_vars

\* SpecLive: generation requests of both dispatchers for the default model, under
\* fair scheduling: a handler that has been started and can take its next step
\* takes it, and the adapter's load and generate calls return or raise.
OtherModelsGood == {d \in AnyDisk : \A n \in Names \ {DefaultModelName} : d[n] = "good"}

NextLive ==
    \/ \E r \in DOMAIN req, p \in Prompts :
          HttpGenerate(r, p, DefaultModelName, Absent, Absent)
    \/ \E r \in DOMAIN req, p \in Prompts :
          GrpcGenerateText(r, p, DefaultModelName, 0, 0)
    \/ \E r \in DOMAIN req : LoadCheck(r)
    \/ \E r \in DOMAIN req : PathCheck(r)
    \/ \E r \in DOMAIN req : LoadModel(r)
    \/ \E r \in DOMAIN req : Insert(r)
    \/ \E r \in DOMAIN req : Lookup(r)
    \/ \E r \in DOMAIN req : Generate(r, OneText)

\* The steps of one handler invocation after its start
HandlerStep(r) ==
    \/ LoadCheck(r)
    \/ PathCheck(r)
    \/ LoadModel(r)
    \/ Insert(r)
    \/ Lookup(r)
    \/ Generate(r, OneText)

Fairness == \A r \in 1..(1 + NumLive) : WF_vars(HandlerStep(r))

SpecLive ==
    InitWith(1, NumLive, OtherModelsGood) /\ [][NextLive]_vars /\ Fairness

\* SpecHttp: HTTP requests only, on the event loop.
NextHttp ==
    \/ \E r \in DOMAIN req, p \in Prompts, n \in Names :
          HttpGenerate(r, p, n, Absent, Absent)
    \/ \E r \in DOMAIN req, n \in Names : HttpModelInfo(r, n)
    \/ \E r \in DOMAIN req : LoadCheck(r)
    \/ \E r \in DOMAIN req : PathCheck(r)
    \/ \E r \in DOMAIN req : LoadModel(r)
    \/ \E r \in DOMAIN req : Insert(r)
    \/ \E r \in DOMAIN req : Lookup(r)
    \/ \E r \in DOMAIN req : Generate(r, OneText)
    \/ \E n \in Names : Install(n)

SpecHttp == InitWith(NumPosts, 0, AnyDisk) /\ [][NextHttp]_vars

\* SpecParams: one generation request per dispatcher, over the values of
\* model_name, max_length and temperature; the model directories are in place.
NextParams ==
    \/ \E r \in DOMAIN req, p \in Prompts, n \in Names \cup {""},
          ml \in Opt(MaxLengths), t \in Opt(Temperatures) :
          HttpGenerate(r, p, n, ml, t)
    \/ \E r \in DOMAIN req, p \in Prompts, n \in Names,
          ml \in MaxLengths, t \in Temperatures :
          GrpcGenerateText(r, p, n, ml, t)
    \/ \E r \in DOMAIN req : LoadCheck(r)
    \/ \E r \in DOMAIN req : PathCheck(r)
    \/ \E r \in DOMAIN req : LoadModel(r)
    \/ \E r \in DOMAIN req : Insert(r)
    \/ \E r \in DOMAIN req : Lookup(r)
    \/ \E r \in DOMAIN req : Generate(r, OneText)

SpecParams == InitWith(1, 1, GoodDisk) /\ [][NextParams]_vars

\* SpecText: one generation request per dispatcher, over the texts the runtime
\* may return; the model directories are in place.
AllTexts == SeqsUpTo(Chars, MaxTextLen)

NextText ==
    \/ \E r \in DOMAIN req, p \in Prompts, n \in Names :
          HttpGenerate(r, p, n, Absent, Absent)
    \/ \E r \in DOMAIN req, p \in Prompts, n \in Names :
          GrpcGenerateText(r, p, n, 0, 0)
    \/ \E r \in DOMAIN req : LoadCheck(r)
    \/ \E r \in DOMAIN req : PathCheck(r)
    \/ \E r \in DOMAIN req : LoadModel(r)
    \/ \E r \in DOMAIN req : Insert(r)
    \/ \E r \in DOMAIN req : Lookup(r)
    \/ \E r \in DOMAIN req : Generate(r, AllTexts)

SpecText == InitWith(1, 1, GoodDisk) /\ [][NextText]_vars

-----------------------------------------------------------------------------
(* Claims *)

Requests == DOMAIN req
Name(r) == req[r].model_name
Done(r) == req[r].pc = "done"
Accepted(r) == req[r].pc # "new"
SameModel(r, s) == Reg(r) = Reg(s) /\ Name(r) = Name(s)

\* The failure a load that found the directory in state d raises
LoadFailure(d, n) ==
    IF d = "absent" THEN FileNotFound(n)
    ELSE IF d = "bad_tokenizer" THEN TokenizerError(n) ELSE WeightsError(n)

\* C1: single-flight load.  Requests that find a name unloaded in one registry
\* share one load: the runtime loads the weights of a name at most once per
\* registry, no two requests each carry out a load of the same name, and all
\* requests that obtained a handle for the name obtained the same one.
C1_SingleFlight ==
    /\ \A R \in Registries, n \in Names : adapter[R][n].weights <= 1
    /\ \A r, s \in Requests :
          (r # s /\ SameModel(r, s)) => ~(req[r].model # 0 /\ req[s].model # 0)
    /\ \A r, s \in Requests :
          (SameModel(r, s) /\ req[r].handle # NoHandle /\ req[s].handle # NoHandle)
             => req[r].handle = req[s].handle

\* C2: the HTTP dispatcher and the gRPC dispatcher see the same loaded names and
\* handles in every state, and a name is loaded once for both.
C2_SharedRegistry ==
    /\ models[RegistryOf("http")] = models[RegistryOf("grpc")]
    /\ \A r, s \in Requests :
          ~(req[r].proto # req[s].proto /\ Name(r) = Name(s)
              /\ req[r].inserted /\ req[s].inserted)

\* C3: cache hit.  A request accepted after the first load-or-get of its name has
\* returned starts no load of its own and obtains the handle that first call
\* cached.
C3_CacheHit ==
    \A r \in Requests :
       req[r].late =>
          /\ req[r].loads = 0
          /\ req[r].handle # NoHandle => req[r].handle = first[Reg(r)][Name(r)]

BadDisk == {"absent", "bad_tokenizer", "bad_weights"}

C5_FailuresNotCached ==
    /\ \A r \in Requests : req[r].loads <= 1
    /\ \A r \in Requests :
          req[r].seen \in BadDisk =>
             /\ Done(r)
             /\ req[r].raised
             /\ req[r].loads = 1
             /\ ~req[r].inserted
             /\ req[r].resp.detail = LoadFailure(req[r].seen, Name(r))
    /\ \A R \in Registries : \A n \in Loaded(R) :
          /\ models[R][n].model # 0
          /\ models[R][n].tokenizer # 0
          /\ \E r \in Requests :
                /\ Reg(r) = R /\ Name(r) = n
                /\ req[r].inserted /\ req[r].seen = "good"
                /\ models[R][n] = [model |-> req[r].model, tokenizer |-> req[r].tokenizer]
    /\ \A r \in Requests :
          (Done(r) /\ req[r].loads = 0) => Name(r) \in Loaded(Reg(r))
    /\ \A r \in Requests :
          (req[r].seen = "good" /\ req[r].pc # "insert") =>
             /\ req[r].inserted
             /\ Name(r) \in Loaded(Reg(r))

C5_Witness ==
    \E r, s \in Requests :
       /\ r < s /\ SameModel(r, s)
       /\ Done(r) /\ req[r].seen = "bad_weights" /\ req[r].tokenizer # 0
       /\ Done(s) /\ req[s].inserted /\ ~req[s].raised
       /\ models[Reg(s)][Name(s)] = [model |-> s, tokenizer |-> s]

\* The message of the failure request r met, judged by what its load saw: a load
\* failure when the directory was not good, else a failure of generation.
FailureOf(r) ==
    IF req[r].seen \in BadDisk
    THEN LoadFailure(req[r].seen, Name(r))
    ELSE InferenceError(Name(r))

\* C6: HTTP error mapping.  A finished HTTP request answers 500 or 200: 500 with
\* the exception's message as detail and no body whenever load or generation
\* failed (a missing model too), and 200 with the result only when neither failed.
C6_HttpErrorMapping ==
    \A r \in Requests :
       (req[r].proto = "http" /\ Done(r)) =>
          /\ req[r].resp.status_code \in {200, 500}
          /\ req[r].seen \in BadDisk => req[r].raised
          /\ req[r].raised =>
                /\ req[r].resp.status_code = 500
                /\ req[r].resp.detail = FailureOf(r)
                /\ req[r].resp.body.kind = "none"
          /\ ~req[r].raised =>
                /\ req[r].resp.status_code = 200
                /\ req[r].resp.detail = <<>>
                /\ Name(r) \in Loaded(Reg(r))
                /\ req[r].resp.body.kind = IF req[r].kind = "generate" THEN "text" ELSE "info"

C6_Witness ==
    \E r, s \in Requests :
       /\ req[r].proto = "http" /\ req[s].proto = "http"
       /\ Done(r) /\ req[r].kind = "generate" /\ req[r].seen = "absent"
       /\ req[r].resp.status_code = 500
       /\ req[r].resp.detail = FileNotFound(Name(r))
       /\ Done(s) /\ req[s].kind = "info" /\ req[s].seen = "bad_tokenizer"
       /\ req[s].resp.status_code = 500

\* C7: gRPC error mapping.  A finished gRPC call always carries a response message
\* of its type; when load or generation failed the status code is INTERNAL, the
\* details are the error message and every field of the message has its default
\* value; otherwise the status code was never set.
C7_GrpcErrorMapping ==
    \A r \in Requests :
       (req[r].proto = "grpc" /\ Done(r)) =>
          /\ req[r].resp.code \in {"OK", "INTERNAL"}
          /\ req[r].resp.body.kind = IF req[r].kind = "generate" THEN "text" ELSE "info"
          /\ req[r].seen \in BadDisk => req[r].raised
          /\ req[r].raised =>
                /\ req[r].resp.code = "INTERNAL"
                /\ req[r].resp.detail = FailureOf(r)
                /\ req[r].resp.body.generated_text = <<>>
                /\ req[r].resp.body.tokens_generated = 0
                /\ req[r].resp.body.model_name = ""
                /\ req[r].resp.body.max_length = 0
                /\ req[r].resp.body.architecture = ""
          /\ ~req[r].raised =>
                /\ req[r].resp.code = "OK"
                /\ req[r].resp.detail = <<>>

C7_Witness ==
    \E r, s \in Requests :
       /\ req[r].proto = "grpc" /\ req[s].proto = "grpc"
       /\ Done(r) /\ req[r].kind = "generate" /\ req[r].handle # NoHandle
       /\ req[r].resp.code = "INTERNAL"
       /\ req[r].resp.detail = InferenceError(Name(r))
       /\ Done(s) /\ req[s].kind = "info" /\ req[s].seen = "absent"
       /\ req[s].resp.code = "INTERNAL"

\* The value Python's `or` leaves for a request field: the default for zero
SentOr(field, d) == IF field = <<0>> THEN d ELSE field[1]

\* C8: gRPC default substitution.  The max_length passed to generation is 128 when
\* the request's max_length is 0 and the request's value otherwise; the
\* temperature passed is 0.7 (7 tenths) when the request's is 0 and the request's
\* value otherwise.  A call that got as far as generation passed these values.
C8_GrpcDefaults ==
    \A r \in Requests :
       (req[r].proto = "grpc" /\ req[r].kind = "generate") =>
          /\ req[r].max_length = SentOr(req[r].in_max_length, 128)
          /\ req[r].temperature = SentOr(req[r].in_temperature, 7)
          /\ (Done(r) /\ req[r].handle # NoHandle) =>
                /\ req[r].gen_max_length = SentOr(req[r].in_max_length, 128)
                /\ req[r].gen_temperature = SentOr(req[r].in_temperature, 7)

C8_Witness ==
    \E r \in Requests :
       /\ req[r].proto = "grpc" /\ Done(r) /\ ~req[r].raised
       /\ req[r].in_max_length = <<0>> /\ req[r].gen_max_length = 128
       /\ req[r].in_temperature = <<0>> /\ req[r].gen_temperature = 7

\* The number of maximal runs of non-whitespace characters of a text
WordCount(text) ==
    Cardinality({i \in 1..Len(text) :
                    /\ ~IsSpace(text[i])
                    /\ (i = 1 \/ IsSpace(text[i - 1]))})

\* C9: in every successful generation response, of either dispatcher,
\* tokens_generated is the number of whitespace-delimited words of generated_text.
C9_TokensAreWords ==
    \A r \in Requests :
       (Done(r) /\ req[r].kind = "generate" /\ ~req[r].raised) =>
          req[r].resp.body.tokens_generated = WordCount(req[r].resp.body.generated_text)

C9_Witness ==
    \E r, s \in Requests :
       /\ req[r].proto = "http" /\ Done(r) /\ req[r].resp.status_code = 200
       /\ req[r].resp.body.generated_text = <<"a", " ", "\n", "a">>
       /\ req[r].resp.body.tokens_generated = 2
       /\ req[s].proto = "grpc" /\ Done(s) /\ req[s].resp.code = "OK"
       /\ req[s].resp.body.generated_text = <<" ", "a", "a", " ">>
       /\ req[s].resp.body.tokens_generated = 1

\* C10: get_model_info returns info only for a loaded model.  A model-info request
\* that returned found or put its name in the registry and its result is
\* {model_name: n, max_length: 2048, architecture: "Transformer"}; one whose load
\* failed raised and carries no info.
C10_DescribeLoaded ==
    \A r \in Requests :
       (req[r].kind = "info" /\ Done(r)) =>
          /\ req[r].seen \in BadDisk => req[r].raised
          /\ ~req[r].raised =>
                /\ Name(r) \in Loaded(Reg(r))
                /\ req[r].resp.body =
                      [kind |-> "info", generated_text |-> <<>>, tokens_generated |-> 0,
                       model_name |-> Name(r), max_length |-> 2048,
                       architecture |-> "Transformer"]
          /\ req[r].raised =>
                /\ req[r].seen \in BadDisk
                /\ req[r].resp.body.model_name = ""
                /\ req[r].resp.body.max_length = 0
                /\ req[r].resp.body.architecture = ""

C10_Witness ==
    \E r, s \in Requests :
       /\ r # s /\ SameModel(r, s)
       /\ req[r].kind = "info" /\ Done(r) /\ req[r].inserted
       /\ req[s].kind = "info" /\ Done(s) /\ req[s].loads = 0
       /\ req[r].resp = req[s].resp
       /\ req[r].resp.body.max_length = 2048

\* C11: registry entries are stable.  Once a registry maps a name to a handle it
\* maps that name to that handle in every later state: no step removes an entry
\* or replaces its handle.
C11_EntriesStable ==
    [][\A R \in Registries : \A n \in Loaded(R) :
          /\ n \in DOMAIN models'[R]
          /\ models'[R][n] = models[R][n]]_vars

\* C12: the name-to-handle mapping changes only in the insertion step of a
\* successful load.  A step that changes some registry is the step of one request
\* that stood at the store of load_model, had loaded tokenizer and weights, and
\* adds or sets exactly the entry of its name; the generation step, the return of
\* get_model_info, a failing request and a request that finds its name loaded
\* change nothing.
C12_OnlyInsertWrites ==
    [][/\ models' # models =>
             \E r \in Requests :
                /\ req[r].pc = "insert"
                /\ req[r].seen = "good" /\ req[r].tokenizer # 0 /\ req[r].model # 0
                /\ ~req[r].inserted /\ req'[r].inserted
                /\ \A s \in Requests \ {r} : req'[s] = req[s]
                /\ \A R \in Registries : \A n \in DOMAIN models'[R] :
                      (R = Reg(r) /\ n = Name(r))
                         \/ (n \in Loaded(R) /\ models'[R][n] = models[R][n])
                /\ \A R \in Registries : Loaded(R) \subseteq DOMAIN models'[R]
       /\ \A r \in Requests :
             (req[r].pc \in {"new", "load", "path", "loading", "lookup", "generate"}
                /\ req'[r] # req[r]) => models' = models
       /\ \A r \in Requests :
             (req'[r].raised /\ ~req[r].raised) => models' = models
      ]_vars

C12_Witness ==
    \E r, s \in Requests :
       /\ SameModel(r, s) /\ r # s
       /\ Done(r) /\ req[r].inserted /\ req[r].resp.detail = InferenceError(Name(r))
       /\ Done(s) /\ req[s].loads = 0 /\ ~req[s].raised
       /\ models[Reg(r)][Name(r)] = [model |-> r, tokenizer |-> r]

-----------------------------------------------------------------------------
\* C13: loads of different names are not serialized against each other.  While a
\* gRPC request is inside load_model for one name, a gRPC request inside
\* load_model for another name can take its own next step (the check, the
\* directory check, the load of tokenizer and weights, the store): none of these
\* steps waits for the other load to finish.
Loading(r) == req[r].pc \in {"load", "path", "loading", "insert"}

C13_LoadsIndependent ==
    \A r, s \in Requests :
       (/\ req[r].proto = "grpc" /\ req[s].proto = "grpc"
        /\ Loading(r) /\ Loading(s)
        /\ Name(r) # Name(s))
       => /\ req[r].pc = "load" => ENABLED LoadCheck(r)
          /\ req[r].pc = "path" => ENABLED PathCheck(r)
          /\ req[r].pc = "loading" => ENABLED LoadModel(r)
          /\ req[r].pc = "insert" => ENABLED Insert(r)

\* Two gRPC requests for distinct unloaded names are both loading tokenizer and weights.
C13_Witness ==
    \E r, s \in Requests :
       /\ req[r].proto = "grpc" /\ req[s].proto = "grpc"
       /\ Name(r) # Name(s)
       /\ req[r].pc = "loading" /\ req[s].pc = "loading"
       /\ req[r].loads = 1 /\ req[s].loads = 1
       /\ Name(r) \notin Loaded(GrpcRegistry) /\ Name(s) \notin Loaded(GrpcRegistry)

-----------------------------------------------------------------------------
\* C14: at most 4 gRPC handler invocations (GenerateText or GetModelInfo, with
\* their blocking load or generation) execute at once, and while 4 execute no
\* further gRPC call is started: it waits for a worker.
C14_PoolBound ==
    /\ Cardinality(Executing) <= MaxWorkers
    /\ Cardinality(Executing) = MaxWorkers =>
          \A r \in Requests :
             /\ ~ENABLED (\E p \in Prompts, n \in Names : GrpcGenerateText(r, p, n, 0, 0))
             /\ ~ENABLED (\E n \in Names : GrpcGetModelInfo(r, n))

\* Four calls execute, inside load or generation, and a fifth has not been started.
C14_Witness ==
    /\ Cardinality(Executing) = MaxWorkers
    /\ \E r \in Requests : req[r].proto = "grpc" /\ req[r].pc = "new"
    /\ \E r, s \in Executing : req[r].pc = "loading" /\ req[s].pc = "generate"

-----------------------------------------------------------------------------
\* C15: HTTP handlers never interleave.  At most one HTTP handler is between its
\* first line and its response, and while it is no other HTTP request is started;
\* so on the HTTP dispatcher's registry no two loads of one name are in progress
\* together, and the weights of each name are loaded at most once.
HttpRunning == {r \in Requests : req[r].proto = "http" /\ Running(r)}

C15_HttpSerial ==
    /\ Cardinality(HttpRunning) <= 1
    /\ HttpRunning # {} =>
          \A s \in Requests :
             /\ ~ENABLED (\E p \in Prompts, n \in Names : HttpGenerate(s, p, n, Absent, Absent))
             /\ ~ENABLED (\E n \in Names : HttpModelInfo(s, n))
    /\ \A r, s \in Requests :
          (r # s /\ req[r].proto = "http" /\ req[s].proto = "http" /\ Name(r) = Name(s))
             => ~(Loading(r) /\ Loading(s))
    /\ \A n \in Names :
          /\ adapter[HttpRegistry][n].weights <= 1
          /\ Cardinality({r \in Requests : /\ req[r].proto = "http"
                                           /\ Name(r) = n
                                           /\ req[r].inserted}) <= 1

\* Two HTTP requests for one name are done: the first loaded it, the second was
\* started after the first responded and found it loaded.
C15_Witness ==
    \E r, s \in Requests :
       /\ r # s /\ req[r].proto = "http" /\ req[s].proto = "http"
       /\ Name(r) = Name(s)
       /\ Done(r) /\ req[r].inserted /\ req[r].loads = 1
       /\ Done(s) /\ req[s].loads = 0 /\ ~req[s].raised
       /\ adapter[HttpRegistry][Name(r)].weights = 1

-----------------------------------------------------------------------------
\* C16: a generation failure does not unload the model.  The step in which
\* generate_text raises after the model was found or loaded leaves the registry
\* as it is, the entry of that name in place with the same handle; and a request
\* for that name started after such a failure does not go on to the adapter's
\* load.
GenerationFailed(r) == Done(r) /\ req[r].raised /\ req[r].handle # NoHandle

C16_FailureKeepsModel ==
    [][/\ \A r \in Requests :
             (req[r].pc = "generate" /\ req'[r].raised) =>
                /\ models' = models
                /\ Name(r) \in DOMAIN models'[Reg(r)]
                /\ models'[Reg(r)][Name(r)] = models[Reg(r)][Name(r)]
       /\ \A r, s \in Requests :
             (/\ GenerationFailed(r)
              /\ req[s].pc = "new" /\ req'[s].pc # "new"
              /\ Reg(s) = Reg(r) /\ req'[s].model_name = Name(r)) =>
                /\ req'[s].pc \in {"lookup", "done"}
                /\ ~req'[s].raised
       /\ \A s \in Requests :
             (req[s].pc \in {"lookup", "generate"} /\ req[s].loads = 0) =>
                req'[s].loads = 0
      ]_vars

\* An HTTP request loaded a model and its generation failed; the next HTTP request
\* for the name got the handle the first one stored, without a load.
C16_Witness ==
    \E r, s \in Requests :
       /\ r < s /\ req[r].proto = "http" /\ req[s].proto = "http"
       /\ Name(r) = Name(s)
       /\ GenerationFailed(r) /\ req[r].inserted
       /\ req[r].resp.detail = InferenceError(Name(r))
       /\ Done(s) /\ req[s].loads = 0
       /\ req[s].handle = [model |-> NewObject(r), tokenizer |-> NewObject(r)]
       /\ adapter[HttpRegistry][Name(r)].calls = 1

-----------------------------------------------------------------------------
\* C17: on the HTTP path the defaults apply only to fields absent from the body.
\* The max_length and temperature an HTTP generation request passes to generation
\* are 128 and 0.7 (7 tenths) when the body leaves the field out and the body's
\* value otherwise, zero included, and its model name is never empty.  So an HTTP
\* call and a gRPC call that carry the same values and both reached generation
\* passed different parameters where the value is 0 (0 against the default) and
\* the same parameters where it is not zero; with the same model name and
\* non-zero values both made the same number of load calls.
BodyOr(field, d) == IF field = Absent THEN d ELSE field[1]

Generated(r) == Done(r) /\ req[r].kind = "generate" /\ req[r].handle # NoHandle

C17_HttpDefaults ==
    /\ \A r \in Requests :
          (req[r].proto = "http" /\ req[r].kind = "generate") =>
             /\ req[r].model_name # ""
             /\ req[r].max_length = BodyOr(req[r].in_max_length, 128)
             /\ req[r].temperature = BodyOr(req[r].in_temperature, 7)
             /\ Generated(r) =>
                   /\ req[r].gen_max_length = BodyOr(req[r].in_max_length, 128)
                   /\ req[r].gen_temperature = BodyOr(req[r].in_temperature, 7)
    /\ \A h, g \in Requests :
          (/\ req[h].proto = "http" /\ req[g].proto = "grpc"
           /\ Generated(h) /\ Generated(g)) =>
             /\ req[h].in_max_length = req[g].in_max_length =>
                   IF req[g].in_max_length = Some(0)
                   THEN req[h].gen_max_length = 0 /\ req[g].gen_max_length = 128
                   ELSE req[h].gen_max_length = req[g].gen_max_length
             /\ req[h].in_temperature = req[g].in_temperature =>
                   IF req[g].in_temperature = Some(0)
                   THEN req[h].gen_temperature = 0 /\ req[g].gen_temperature = 7
                   ELSE req[h].gen_temperature = req[g].gen_temperature
             /\ (/\ Name(h) = Name(g)
                 /\ req[h].in_max_length = req[g].in_max_length
                 /\ req[h].in_temperature = req[g].in_temperature
                 /\ req[g].in_max_length # Some(0)
                 /\ req[g].in_temperature # Some(0)) =>
                   /\ req[h].loads = req[g].loads
                   /\ req[h].prompt = req[g].prompt
                   /\ req[h].gen_max_length = req[g].gen_max_length
                   /\ req[h].gen_temperature = req[g].gen_temperature

\* An HTTP call and a gRPC call both sent max_length 0 and temperature 0 and both
\* generated: the HTTP call passed the zeros, the gRPC call the defaults.
C17_Witness ==
    \E h, g \in Requests :
       /\ req[h].proto = "http" /\ req[g].proto = "grpc"
       /\ Generated(h) /\ Generated(g)
       /\ req[h].in_max_length = Some(0) /\ req[g].in_max_length = Some(0)
       /\ req[h].in_temperature = Some(0) /\ req[g].in_temperature = Some(0)
       /\ req[h].gen_max_length = 0 /\ req[g].gen_max_length = 128
       /\ req[h].gen_temperature = 0 /\ req[g].gen_temperature = 7

-----------------------------------------------------------------------------
\* C18: every request gets exactly one outcome.  Under fair scheduling, with
\* every adapter load and generate call returning or raising, each HTTP or gRPC
\* request that has been started eventually completes; a completed request has
\* one response, a success or an error, which never changes afterwards.  No
\* request waits on another's load, and a request that failed does not keep the
\* others from completing.
HasOneOutcome(r) ==
    /\ req[r].resp # NoResp
    /\ req[r].raised <=> req[r].resp = Raises(req[r], FailureOf(r)).resp

C18_EveryRequestCompletes ==
    /\ \A r \in 1..(1 + NumLive) : Accepted(r) ~> Done(r)
    /\ [](\A r \in Requests : Done(r) => HasOneOutcome(r))
    /\ [][\A r \in Requests : Done(r) => req'[r] = req[r]]_vars

\* Two gRPC requests asked for a model whose files cannot be loaded: each made its
\* own load attempt and completed with its own error, and the HTTP request
\* completed as well.
C18_Witness ==
    \E r, s \in Requests :
       /\ r < s /\ SameModel(r, s) /\ req[r].proto = "grpc"
       /\ Done(r) /\ req[r].raised /\ req[r].loads = 1 /\ req[r].handle = NoHandle
       /\ Done(s) /\ req[s].raised /\ req[s].loads = 1 /\ ~req[s].late
       /\ adapter[GrpcRegistry][Name(r)].calls = 2
       /\ \E h \in Requests : req[h].proto = "http" /\ Done(h) /\ HasOneOutcome(h)

====
